---- MODULE Spec2Model ----
(***************************************************************************)
(* Model of the nexus-lib front end: the statement parser of               *)
(* src/src/parser.rs and the tree-walking evaluator of                     *)
(* src/src/evaluator.rs.                                                   *)
(*                                                                         *)
(* The evaluator is a call/return recursion over the AST; it is modelled   *)
(* by RECURSIVE operators that return the produced Object together with    *)
(* what the call did on the way: the lines the print built-in wrote (out), *)
(* whether the process was terminated (halt), and a history of the calls   *)
(* made (tr), which is not program state and is read only by properties.   *)
(* eval_program is one action per iteration of its for loop.               *)
(*                                                                         *)
(* The parser is one action per pass through parse_program's while loop,   *)
(* except that the two "skip to end of line" loops advance one token per   *)
(* action, because they need not terminate.                                *)
(***************************************************************************)
EXTENDS Integers, Sequences, FiniteSets, TLC

VARIABLES
    \* ---- Evaluator (src/src/evaluator.rs)
    program,        \* Evaluator.program.statements
    idx,            \* position of eval_program's for loop (next statement, 1-based)
    result,         \* eval_program's local `result`: Option<Object>
    out,            \* what builtin print_val has written so far
    trace,          \* history of evaluation calls (read by properties only)
    e_pc,           \* "run" | "returned" | "exit" (process::exit) | "panic" (todo!())
    \* ---- Parser (src/src/parser.rs)
    token_stream,   \* Parser.token_stream
    cur_token,      \* Parser.cur_token
    peek_token,     \* Parser.peek_token
    current_pos,    \* Parser.current_pos (0-based, as in the source)
    line_count,     \* Parser.line_count
    errors,         \* Parser.errors
    statements,     \* parse_program's local program.statements
    pending,        \* the statement a skip loop will return (<<>> outside the loops)
    p_pc            \* "idle" | "loop" | "skip" | "returned" | "exit"

evars == <<program, idx, result, out, trace, e_pc>>
pvars == <<token_stream, cur_token, peek_token, current_pos, line_count, errors,
           statements, pending, p_pc>>
vars == <<program, idx, result, out, trace, e_pc, token_stream, cur_token, peek_token,
          current_pos, line_count, errors, statements, pending, p_pc>>

\* ------------------------------------------------------------------------
\* Bounds of the checked inputs
\* ------------------------------------------------------------------------
MaxStmts == 3      \* longest top-level program of the sequencing family
MaxChain == 3      \* longest if/elseif/else chain
MaxDepth == 2      \* deepest nesting of blocks and if consequences
MaxTokens == 5     \* most tokens in front of the closing EOF

\* ------------------------------------------------------------------------
\* Runtime objects (crate::object, used by evaluator.rs)
\* Every Object is a record of the same shape so that structural equality
\* (derived PartialEq) is record equality.
\* ------------------------------------------------------------------------
Obj(t) == [type |-> t, value |-> 0, bool |-> FALSE, msg |-> "", operator |-> "", sub |-> <<>>]
Num(v) == [Obj("NUMBER") EXCEPT !.value = v]
Bool(b) == [Obj("BOOL") EXCEPT !.bool = b]
NoneLit == Obj("NONE")
UnMetIf == Obj("UNMETIF")
Return(v) == [Obj("RETURN") EXCEPT !.sub = <<v>>]
Error(m, op, operands) == [Obj("ERROR") EXCEPT !.msg = m, !.operator = op, !.sub = operands]
BuiltInFunction(args) == [Obj("BUILTIN") EXCEPT !.operator = "print", !.sub = args]

\* Option<Object> of eval_program
Some(o) == [some |-> TRUE, obj |-> o]
NoValue == [some |-> FALSE, obj |-> NoneLit]

\* ------------------------------------------------------------------------
\* AST (crate::ast, used by evaluator.rs); one record shape for all nodes.
\* Optional children are sequences of length 0 or 1.
\* ------------------------------------------------------------------------
Node(k) == [kind |-> k, value |-> 0, bool_type |-> FALSE, name |-> "", operator |-> "",
            if_type |-> "", left |-> <<>>, right |-> <<>>, condition |-> <<>>,
            consequence |-> <<>>, alternative |-> <<>>, function |-> <<>>, args |-> <<>>,
            statements |-> <<>>, expression |-> <<>>, return_value |-> <<>>]

NumberLiteral(n) == [Node("NUMBERLITERAL") EXCEPT !.value = n]
BooleanLiteral(b) == [Node("BOOLEAN") EXCEPT !.bool_type = b]
NoneExpression == Node("NONE")
EmptyExpression == Node("EMPTY")
StringLiteral == Node("STRINGLITERAL")
Identifier(n) == [Node("IDENTIFIER") EXCEPT !.name = n]
PrefixExpression(op, r) == [Node("PREFIX") EXCEPT !.operator = op, !.right = <<r>>]
InfixExpression(op, l, r) == [Node("INFIX") EXCEPT !.operator = op, !.left = <<l>>, !.right = <<r>>]
IfExpression(ty, cond, cons, alt) ==
    [Node("IF") EXCEPT !.if_type = ty, !.condition = cond, !.consequence = cons,
                       !.alternative = alt]
CallExpression(f, as) == [Node("CALL") EXCEPT !.function = <<f>>, !.args = as]

ReturnStatement(e) == [Node("RETURN") EXCEPT !.return_value = <<e>>]
ExpressionStatement(e) == [Node("EXPRESSION") EXCEPT !.expression = <<e>>]
BlockStatement(ss) == [Node("BLOCK") EXCEPT !.statements = ss]
VarStatement(n) == [Node("VAR") EXCEPT !.name = n]

\* ------------------------------------------------------------------------
\* Result of one evaluation call
\* ------------------------------------------------------------------------
\* history entries: k = "stmt" (a statement run by a block), "block" (a block's
\* result), "link" (a visited link of an if chain, res = its condition's value),
\* "infix"/"prefix" (an operator application, l/r = the operand values),
\* "top" (a statement run by eval_program).  `at` is the path of the node.
\* For "top", n is the number of lines written when the statement had run.
Ev(k, at, res) ==
    [k |-> k, at |-> at, res |-> res, ty |-> "", l |-> NoneLit, r |-> NoneLit, n |-> 0]

Ret(o) == [obj |-> o, out |-> <<>>, tr |-> <<>>, halt |-> ""]
Halt(h) == [obj |-> NoneLit, out |-> <<>>, tr |-> <<>>, halt |-> h]
Halted(r) == r.halt # ""
\* r2 happened after r1
Then(r1, r2) == [r2 EXCEPT !.out = r1.out \o @, !.tr = r1.tr \o @]
Log(r, ev) == [r EXCEPT !.tr = @ \o <<ev>>]

\* ------------------------------------------------------------------------
\* Evaluator
\* ------------------------------------------------------------------------
native_bool_to_object(b) == IF b THEN Bool(TRUE) ELSE Bool(FALSE)

\* is_truthy: val is the returned bool; halt = "exit" when throw_error ends the process
is_truthy(object) ==
    CASE object.type = "BOOL" -> [val |-> object.bool, halt |-> ""]
      [] object.type = "NONE" -> [val |-> FALSE, halt |-> ""]
      [] OTHER -> [val |-> FALSE, halt |-> "exit"]

eval_bang_expression(right) ==
    CASE right.type = "BOOL" -> Ret(Bool(~right.bool))
      [] right.type = "NONE" -> Ret(right)
      [] OTHER -> Halt("panic")

eval_minus_expression(right) ==
    IF right.type = "NUMBER" THEN Num(0 - right.value) ELSE right

get_type(o) == o.type

\* Operators of the model.  DIVIDE is left out of the inputs: an f64 quotient is
\* not an integer, and no property here depends on it.
eval_integer_infix_expression(operator, left, right) ==
    IF left.type # "NUMBER"
    THEN Error("left value is not a number", "", <<left>>)
    ELSE IF right.type # "NUMBER"
    THEN Error("right value is not a number", "", <<right>>)
    ELSE LET left_val == left.value
             right_val == right.value
         IN CASE operator = "PLUS" -> Num(left_val + right_val)
              [] operator = "MINUS" -> Num(left_val - right_val)
              [] operator = "MULTIPLY" -> Num(left_val * right_val)
              [] operator = "GREATTHAN" -> native_bool_to_object(left_val > right_val)
              [] operator = "LESSTHAN" -> native_bool_to_object(left_val < right_val)
              [] operator = "GREATOREQUAL" -> native_bool_to_object(left_val >= right_val)
              [] operator = "LESSOREQUAL" -> native_bool_to_object(left_val <= right_val)
              [] operator = "EQUAL" -> native_bool_to_object(left_val = right_val)
              [] operator = "NOTEQUAL" -> native_bool_to_object(left_val # right_val)
              [] OTHER -> NoneLit

\* the if/else-if chain of eval_infix_expression, on the evaluated operands
infix_apply(operator, left, right) ==
    IF get_type(left) = "NUMBER" /\ get_type(right) = "NUMBER"
    THEN eval_integer_infix_expression(operator, left, right)
    ELSE IF operator = "EQUAL" THEN native_bool_to_object(left = right)
    ELSE IF operator = "NOTEQUAL" THEN native_bool_to_object(left # right)
    ELSE Error("Unknown operation", operator, <<left, right>>)

\* (mutation of block_stops: the Return arm is missing, the loop always continues)
block_stops_never(res) == FALSE

\* eval_block_statement's match: which results end the block early
block_stops(res) == res.type = "RETURN"

\* the head link's test of eval_if_expression: condition != None && is_truthy(condition)
if_taken(condition) ==
    IF condition # NoneLit THEN is_truthy(condition) ELSE [val |-> FALSE, halt |-> ""]

\* (mutation of else_taken: the test read as (ELSE || ELSEIF) && is_truthy(condition))
else_taken_grouped(alt, condition) ==
    IF alt.if_type = "ELSE" \/ alt.if_type = "ELSEIF" THEN is_truthy(condition)
    ELSE [val |-> FALSE, halt |-> ""]

\* eval_else_expression's test:
\* if_type == ELSE || if_type == ELSEIF && is_truthy(condition)
else_taken(alt, condition) ==
    IF alt.if_type = "ELSE" THEN [val |-> TRUE, halt |-> ""]
    ELSE IF alt.if_type = "ELSEIF" THEN is_truthy(condition)
    ELSE [val |-> FALSE, halt |-> ""]

RECURSIVE eval_statement(_, _), eval_expression(_, _), eval_block_from(_, _, _, _),
          eval_link(_, _, _), eval_args(_, _, _, _)

\* the for loop of eval_block_statement from statement j on; acc is what the
\* earlier statements did and the running `result`
eval_block_from(stmts, p, j, acc) ==
    IF j > Len(stmts) THEN Log(acc, Ev("block", p, acc.obj))
    ELSE LET r == eval_statement(stmts[j], p \o <<j>>)
             acc2 == Log(Then(acc, r), Ev("stmt", p \o <<j>>, r.obj))
         IN IF Halted(r) THEN Then(acc, r)
            ELSE IF block_stops(r.obj) THEN Log(acc2, Ev("block", p, acc2.obj))
            ELSE eval_block_from(stmts, p, j + 1, acc2)

eval_block_statement(stmts, p) == eval_block_from(stmts, p, 1, Ret(NoneLit))

\* eval_if_expression (head = TRUE) and eval_else_expression (head = FALSE):
\* evaluate the link's condition, then take the consequence, go on to the
\* alternative, or yield UnMetIf
eval_link(node, p, head) ==
    LET c == IF node.condition # <<>> THEN eval_expression(node.condition[1], p \o <<1>>)
             ELSE Ret(NoneLit)
        t == IF head THEN if_taken(c.obj) ELSE else_taken(node, c.obj)
        c2 == Log(c, [Ev("link", p, c.obj) EXCEPT !.ty = node.if_type])
    IN IF Halted(c) THEN c
       ELSE IF t.halt # "" THEN Then(c2, Halt(t.halt))
       ELSE IF t.val THEN Then(c2, eval_block_statement(node.consequence, p \o <<2>>))
       ELSE IF node.alternative # <<>>
            THEN Then(c2, eval_link(node.alternative[1], p \o <<3>>, FALSE))
       ELSE Then(c2, Ret(UnMetIf))

eval_if_expression(node, p) == eval_link(node, p, TRUE)

eval_else_expression(alternative, p) == eval_link(alternative, p, FALSE)

eval_prefix_expression(node, p) ==
    LET right == eval_expression(node.right[1], p \o <<1>>)
        applied == CASE node.operator = "BANG" -> eval_bang_expression(right.obj)
                     [] node.operator = "PLUS" -> Ret(right.obj)
                     [] node.operator = "MINUS" -> Ret(eval_minus_expression(right.obj))
                     [] OTHER -> Ret(Error("Illegal prefix operation", node.operator, <<>>))
    IN IF Halted(right) THEN right
       ELSE IF Halted(applied) THEN Then(right, applied)
       ELSE Log(Then(right, applied),
                [Ev("prefix", p, applied.obj) EXCEPT !.ty = node.operator, !.r = right.obj])

eval_infix_expression(node, p) ==
    LET left == eval_expression(node.left[1], p \o <<1>>)
        right == eval_expression(node.right[1], p \o <<2>>)
        res == infix_apply(node.operator, left.obj, right.obj)
    IN IF Halted(left) THEN left
       ELSE IF Halted(right) THEN Then(left, right)
       ELSE Log(Then(Then(left, right), Ret(res)),
                [Ev("infix", p, res) EXCEPT !.ty = node.operator, !.l = left.obj,
                                            !.r = right.obj])

\* the argument loop of eval_call from argument j on; acc.obj is unused, objs are
\* the evaluated arguments so far
eval_args(args, p, j, st) ==
    IF j > Len(args) THEN st
    ELSE LET a == eval_expression(args[j], p \o <<j>>)
         IN IF Halted(a) THEN [acc |-> Then(st.acc, a), objs |-> st.objs]
            ELSE eval_args(args, p, j + 1,
                           [acc |-> Then(st.acc, a), objs |-> Append(st.objs, a.obj)])

eval_call(call, p) ==
    IF call.function[1].kind = "IDENTIFIER" /\ call.function[1].name = "print"
    THEN LET st == eval_args(call.args, p, 1, [acc |-> Ret(NoneLit), objs |-> <<>>])
         IN IF Halted(st.acc) THEN st.acc
            ELSE [st.acc EXCEPT !.obj = BuiltInFunction(st.objs),
                                !.out = @ \o <<st.objs>>]
    ELSE Halt("panic")

eval_return_statement(ret_stmt, p) ==
    LET value == eval_statement(ExpressionStatement(ret_stmt.return_value[1]), p \o <<1>>)
    IN IF Halted(value) THEN value ELSE [value EXCEPT !.obj = Return(value.obj)]

eval_expression(expression, p) ==
    CASE expression.kind = "NUMBERLITERAL" -> Ret(Num(expression.value))
      [] expression.kind = "STRINGLITERAL" -> Ret(NoneLit)
      [] expression.kind = "PREFIX" -> eval_prefix_expression(expression, p)
      [] expression.kind = "INFIX" -> eval_infix_expression(expression, p)
      [] expression.kind = "BOOLEAN" -> Ret(Bool(expression.bool_type))
      [] expression.kind = "IF" -> eval_if_expression(expression, p)
      [] expression.kind = "CALL" -> eval_call(expression, p)
      [] expression.kind = "NONE" -> Ret(NoneLit)
      [] expression.kind = "EMPTY" -> Ret(Error("Cannot evaluate EMPTY expression", "", <<>>))
      [] OTHER -> Halt("panic")

eval_statement(statement, p) ==
    CASE statement.kind = "RETURN" -> eval_return_statement(statement, p)
      [] statement.kind = "EXPRESSION" -> eval_expression(statement.expression[1], p \o <<1>>)
      [] statement.kind = "BLOCK" -> eval_block_statement(statement.statements, p)
      [] OTHER -> Halt("panic")

\* (mutation of program_match: the Return arm unwraps but does not return)
program_match_no_return(o) ==
    CASE o.type = "RETURN" -> [stop |-> FALSE, result |-> Some(o.sub[1])]
      [] o.type = "ERROR" -> [stop |-> TRUE, result |-> Some(o)]
      [] o.type = "UNMETIF" -> [stop |-> FALSE, result |-> NoValue]
      [] OTHER -> [stop |-> FALSE, result |-> Some(o)]

\* the match of eval_program on one statement's result:
\* stop = the function returns now, result = the new `result`
program_match(o) ==
    CASE o.type = "RETURN" -> [stop |-> TRUE, result |-> Some(o.sub[1])]
      [] o.type = "ERROR" -> [stop |-> TRUE, result |-> Some(o)]
      [] o.type = "UNMETIF" -> [stop |-> FALSE, result |-> NoValue]
      [] OTHER -> [stop |-> FALSE, result |-> Some(o)]

\* ------------------------------------------------------------------------
\* eval_program as a state machine: one action per iteration of the for loop
\* ------------------------------------------------------------------------
\* one iteration: evaluate program[idx], then the match on its result
EvalStep ==
    /\ e_pc = "run"
    /\ idx <= Len(program)
    /\ LET r == eval_statement(program[idx], <<idx>>)
           m == program_match(r.obj)
       IN /\ out' = out \o r.out
          /\ IF Halted(r)
             THEN /\ e_pc' = r.halt
                  /\ trace' = trace \o r.tr
                  /\ UNCHANGED <<idx, result>>
             ELSE /\ trace' = trace \o r.tr \o <<[Ev("top", <<idx>>, r.obj) EXCEPT !.n = Len(out')]>>
                  /\ result' = m.result
                  /\ e_pc' = IF m.stop THEN "returned" ELSE "run"
                  /\ idx' = IF m.stop THEN idx ELSE idx + 1
    /\ UNCHANGED <<program, pvars>>

\* the loop is over: eval_program returns `result`
EvalEnd ==
    /\ e_pc = "run"
    /\ idx > Len(program)
    /\ e_pc' = "returned"
    /\ UNCHANGED <<program, idx, result, out, trace, pvars>>

\* ------------------------------------------------------------------------
\* Programs the evaluator is run on
\* ------------------------------------------------------------------------
CallPrint(k) == CallExpression(Identifier("print"), <<NumberLiteral(k)>>)
If1(c, body) == IfExpression("IF", <<c>>, body, <<>>)
Else1(body) == IfExpression("ELSE", <<>>, body, <<>>)

\* statements of the sequencing family
SeqStmts ==
    { ExpressionStatement(CallPrint(0)),
      ExpressionStatement(NumberLiteral(1)),
      ExpressionStatement(EmptyExpression),
      ReturnStatement(NumberLiteral(1)),
      ReturnStatement(If1(BooleanLiteral(FALSE), <<>>)),
      ExpressionStatement(If1(BooleanLiteral(FALSE), <<>>)),
      BlockStatement(<<ExpressionStatement(EmptyExpression), ExpressionStatement(CallPrint(1))>>),
      ExpressionStatement(If1(BooleanLiteral(TRUE),
          <<ReturnStatement(NumberLiteral(0)), ExpressionStatement(CallPrint(1))>>)),
      ExpressionStatement(If1(NumberLiteral(1), <<>>)),
      VarStatement("x") }

\* prog is a program of 1..MaxStmts statements of the sequencing family
IsSeqProgram(prog) ==
    \E n \in 1..MaxStmts : \E f \in [1..n -> SeqStmts] : prog = [i \in 1..n |-> f[i]]

\* statements nested in blocks and if consequences, and (the last two wrappers)
\* in a return value and in an operand
NestLeaves ==
    { ExpressionStatement(CallPrint(0)),
      ReturnStatement(NumberLiteral(1)),
      ExpressionStatement(EmptyExpression),
      ExpressionStatement(NumberLiteral(0)) }

Wrappers(s) ==
    { BlockStatement(<<ExpressionStatement(CallPrint(1)), s, ExpressionStatement(CallPrint(2))>>),
      ExpressionStatement(If1(BooleanLiteral(TRUE), <<s, ExpressionStatement(CallPrint(1))>>)),
      ExpressionStatement(IfExpression("IF", <<BooleanLiteral(FALSE)>>, <<>>,
          <<Else1(<<s, ExpressionStatement(CallPrint(1))>>)>>)),
      ExpressionStatement(IfExpression("IF", <<NoneExpression>>, <<>>,
          <<IfExpression("ELSEIF", <<BooleanLiteral(TRUE)>>, <<s>>, <<>>)>>)),
      ReturnStatement(If1(BooleanLiteral(TRUE), <<s>>)),
      ExpressionStatement(InfixExpression("EQUAL", If1(BooleanLiteral(TRUE), <<s>>),
                                          NoneExpression)) }

RECURSIVE NestStmts(_)
NestStmts(d) ==
    IF d = 0 THEN NestLeaves
    ELSE LET inner == NestStmts(d - 1)
         IN inner \cup UNION {Wrappers(s) : s \in inner}

NestPrograms == {<<s, ExpressionStatement(CallPrint(0))>> : s \in NestStmts(MaxDepth)}

\* if/elseif*/else? chains
Conds ==
    { BooleanLiteral(TRUE), BooleanLiteral(FALSE), NoneExpression,
      InfixExpression("EQUAL", CallPrint(0), CallPrint(0)),
      InfixExpression("NOTEQUAL", CallPrint(0), CallPrint(0)),
      NumberLiteral(1) }

Bodies ==
    { <<ExpressionStatement(CallPrint(1))>>,
      <<ReturnStatement(NumberLiteral(0))>> }

\* what may end a chain: nothing, or an ELSE link
ElseLinks == {<<>>} \cup {<<Else1(b)>> : b \in Bodies}

\* the chain whose links k..n have conditions cs[k..n] and consequences bs[k..n],
\* closed by `last`; link 1 is the IF link, the others are ELSEIF links
RECURSIVE MkChain(_, _, _, _, _)
MkChain(cs, bs, last, k, n) ==
    IfExpression(IF k = 1 THEN "IF" ELSE "ELSEIF", <<cs[k]>>, bs[k],
                 IF k = n THEN last ELSE <<MkChain(cs, bs, last, k + 1, n)>>)

\* prog is one if/elseif*/else? chain of 1..MaxChain conditional links
IsChainProgram(prog) ==
    \E n \in 1..MaxChain :
        \E cs \in [1..n -> Conds], bs \in [1..n -> Bodies], last \in ElseLinks :
            prog = <<ExpressionStatement(MkChain(cs, bs, last, 1, n))>>

\* operator applications
InfixOps == {"PLUS", "MINUS", "MULTIPLY", "GREATTHAN", "LESSTHAN", "GREATOREQUAL",
             "LESSOREQUAL", "EQUAL", "NOTEQUAL", "BANG"}
PrefixOps == {"BANG", "PLUS", "MINUS", "MULTIPLY"}
Operands ==
    { NumberLiteral(0), NumberLiteral(1), BooleanLiteral(TRUE), NoneExpression,
      StringLiteral, EmptyExpression, CallPrint(0),
      If1(BooleanLiteral(TRUE), <<ReturnStatement(NumberLiteral(1))>>),
      If1(BooleanLiteral(FALSE), <<>>),
      Identifier("x") }

OpPrograms ==
    {<<ExpressionStatement(InfixExpression(op, l, r))>> :
        op \in InfixOps, l \in Operands, r \in Operands}
    \cup {<<ExpressionStatement(PrefixExpression(op, r))>> : op \in PrefixOps, r \in Operands}


\* ------------------------------------------------------------------------
\* Specification of the evaluator: Evaluator::new(program), then eval_program
\* ------------------------------------------------------------------------
ParserIdle ==
    /\ token_stream = <<>>
    /\ cur_token = <<>>
    /\ peek_token = <<>>
    /\ current_pos = 0
    /\ line_count = 1
    /\ errors = <<>>
    /\ statements = <<>>
    /\ pending = <<>>
    /\ p_pc = "idle"

Init ==
    /\ \/ IsSeqProgram(program)
       \/ program \in NestPrograms
       \/ IsChainProgram(program)
       \/ program \in OpPrograms
    /\ idx = 1
    /\ result = Some(NoneLit)
    /\ out = <<>>
    /\ trace = <<>>
    /\ e_pc = "run"
    /\ ParserIdle

Next == EvalStep \/ EvalEnd

Spec == Init /\ [][Next]_vars

\* ------------------------------------------------------------------------
\* Properties of the evaluator
\* ------------------------------------------------------------------------
Front(q) == SubSeq(q, 1, Len(q) - 1)
Last(q) == q[Len(q)]
Events(k) == {i \in DOMAIN trace : trace[i].k = k}
EventsAt(k, at) == {i \in DOMAIN trace : trace[i].k = k /\ trace[i].at = at}
\* a later statement of the same block has been run
LaterSibling(i) ==
    \E j \in Events("stmt") : /\ Front(trace[j].at) = Front(trace[i].at)
                              /\ Last(trace[j].at) > Last(trace[i].at)
LaterTop(i) == \E j \in Events("top") : trace[j].at[1] > trace[i].at[1]

\* C1: an Error propagates like Return: a statement of a block that evaluates to
\* Error is the last one the block runs and the Error is the block's result; a
\* top-level statement that evaluates to Error ends eval_program with that Error.
C1_ErrorShortCircuits ==
    /\ \A i \in Events("stmt") :
          trace[i].res.type = "ERROR" =>
             /\ ~LaterSibling(i)
             /\ \A b \in EventsAt("block", Front(trace[i].at)) : trace[b].res = trace[i].res
    /\ \A i \in Events("top") :
          trace[i].res.type = "ERROR" =>
             /\ ~LaterTop(i)
             /\ e_pc = "returned"
             /\ result = Some(trace[i].res)

\* C2: when a top-level statement evaluates to Return{value}, eval_program has
\* returned at once with the unwrapped value: that statement is the last thing
\* evaluated, nothing was written after it, and the loop did not advance.
C2_TopLevelReturnStops ==
    \A i \in Events("top") :
        trace[i].res.type = "RETURN" =>
           /\ e_pc = "returned"
           /\ result = Some(trace[i].res.sub[1])
           /\ i = Len(trace)
           /\ idx = trace[i].at[1]
           /\ Len(out) = trace[i].n

\* C2 witness: the second of three statements returned 1 after a print; the
\* third, a print, was not run
C2_Witness ==
    /\ Len(program) = 3
    /\ program[1] = ExpressionStatement(CallPrint(0))
    /\ program[3] = ExpressionStatement(CallPrint(0))
    /\ \E i \in Events("top") : trace[i].res.type = "RETURN" /\ trace[i].at = <<2>>
    /\ e_pc = "returned"
    /\ result = Some(Num(1))
    /\ Len(out) = 1

\* C3: the final result of eval_program is never the UnmetIf object.
C3_UnmetIfNeverFinal ==
    e_pc = "returned" => ~(result.some /\ result.obj.type = "UNMETIF")

\* C4: an infix or prefix expression with an operand that evaluated to Error or
\* Return never yields a Bool or a Num.
Propagating(o) == o.type \in {"ERROR", "RETURN"}
C4_NoValueFromSignal ==
    /\ \A i \in Events("infix") :
          (Propagating(trace[i].l) \/ Propagating(trace[i].r))
             => trace[i].res.type \notin {"BOOL", "NUMBER"}
    /\ \A i \in Events("prefix") :
          Propagating(trace[i].r) => trace[i].res.type \notin {"BOOL", "NUMBER"}

\* an expression that holds no if expression (so no block and no return statement)
RECURSIVE IfFree(_)
IfFree(e) ==
    /\ e.kind # "IF"
    /\ \A k \in DOMAIN e.left : IfFree(e.left[k])
    /\ \A k \in DOMAIN e.right : IfFree(e.right[k])
    /\ \A k \in DOMAIN e.args : IfFree(e.args[k])

\* a statement in which every return statement is reached through blocks and if
\* consequences only: no if expression sits in a return value, an operand, an
\* argument or a condition
RECURSIVE PureNest(_), PureChain(_)
PureChain(node) ==
    /\ \A k \in DOMAIN node.condition : IfFree(node.condition[k])
    /\ \A k \in DOMAIN node.consequence : PureNest(node.consequence[k])
    /\ \A k \in DOMAIN node.alternative : PureChain(node.alternative[k])
PureNest(s) ==
    CASE s.kind = "RETURN" -> IfFree(s.return_value[1])
      [] s.kind = "EXPRESSION" ->
            IF s.expression[1].kind = "IF" THEN PureChain(s.expression[1])
            ELSE IfFree(s.expression[1])
      [] s.kind = "BLOCK" -> \A k \in DOMAIN s.statements : PureNest(s.statements[k])
      [] OTHER -> TRUE

\* C5: a block stops at its first statement that evaluates to Return and yields
\* that Return still wrapped; through any nesting of blocks and if consequences
\* the same wrapped Return is what eval_program receives, and eval_program
\* returns its inner value.
C5_BlockYieldsWrappedReturn ==
    \A i \in Events("stmt") :
        trace[i].res.type = "RETURN" =>
           /\ ~LaterSibling(i)
           /\ \E b \in EventsAt("block", Front(trace[i].at)) :
                 /\ b > i
                 /\ trace[b].res = trace[i].res
           /\ PureNest(program[trace[i].at[1]]) =>
                 /\ \E t \in EventsAt("top", <<trace[i].at[1]>>) : trace[t].res = trace[i].res
                 /\ e_pc = "returned"
                 /\ result = Some(trace[i].res.sub[1])

\* C5 witness: a return statement three levels down (a path of at least six
\* steps), followed in its block by a print that was not run, ended the program
\* with its value
C5_Witness ==
    /\ e_pc = "returned"
    /\ result = Some(Num(1))
    /\ PureNest(program[1])
    /\ \E i \in Events("stmt") :
          /\ trace[i].res = Return(Num(1))
          /\ Len(trace[i].at) >= 6
          /\ trace[i].at[1] = 1
    /\ out = <<>>

\* the links of a chain, head first, and the path of link k of the chain at p
RECURSIVE LinksOf(_)
LinksOf(node) ==
    <<node>> \o (IF node.alternative = <<>> THEN <<>> ELSE LinksOf(node.alternative[1]))
LinkPath(p, k) == p \o [x \in 1..(k - 1) |-> 3]

\* if (cond) {..} (elseif (cond) {..})* (else {..})?
WellFormedChain(links) ==
    /\ links[1].if_type = "IF"
    /\ links[1].condition # <<>>
    /\ \A k \in 2..Len(links) :
          \/ links[k].if_type = "ELSEIF" /\ links[k].condition # <<>>
          \/ links[k].if_type = "ELSE" /\ links[k].condition = <<>> /\ k = Len(links)

\* every condition of the chain evaluates to Bool or None
CondsBoolOrNone(links) ==
    \A k \in DOMAIN links :
        \A c \in DOMAIN links[k].condition :
            LET r == eval_expression(links[k].condition[c], <<>>)
            IN ~Halted(r) /\ r.obj.type \in {"BOOL", "NONE"}

\* C6: in a well-formed chain whose conditions are Bool or None, the links are
\* visited from the head on, up to and including the first one that is an ELSE
\* link or has a truthy condition; that link's consequence is the only one
\* evaluated and its result is the chain's result; when no link matches the
\* chain yields UnMetIf.
C6_FirstMatchWins ==
    \A t \in Events("top") :
        LET s == program[trace[t].at[1]]
            p == trace[t].at \o <<1>>
            links == LinksOf(s.expression[1])
            Visited(k) == EventsAt("link", LinkPath(p, k))
            Taken(k) == EventsAt("block", LinkPath(p, k) \o <<2>>)
            Match(k) == \/ links[k].if_type = "ELSE"
                        \/ \E v \in Visited(k) : trace[v].res = Bool(TRUE)
        IN (/\ s.kind = "EXPRESSION"
            /\ s.expression[1].kind = "IF"
            /\ WellFormedChain(links)
            /\ CondsBoolOrNone(links))
           => /\ Visited(1) # {}
              /\ \A k \in 1..(Len(links) - 1) :
                    (Visited(k + 1) # {}) <=> (Visited(k) # {} /\ ~Match(k))
              /\ \A k \in DOMAIN links :
                    /\ Cardinality(Visited(k)) <= 1
                    /\ (Taken(k) # {}) <=> (Visited(k) # {} /\ Match(k))
                    /\ \A b \in Taken(k) : trace[t].res = trace[b].res
              /\ (\A k \in DOMAIN links : Taken(k) = {}) => trace[t].res = UnMetIf

\* C6 witness: a chain of three conditional links whose first two conditions were
\* falsy (the second one None or FALSE after a print) and whose third was taken
C6_Witness ==
    \E t \in Events("top") :
        LET s == program[trace[t].at[1]]
            p == trace[t].at \o <<1>>
        IN /\ s.kind = "EXPRESSION"
           /\ s.expression[1].kind = "IF"
           /\ Len(LinksOf(s.expression[1])) >= 3
           /\ WellFormedChain(LinksOf(s.expression[1]))
           /\ \E v \in EventsAt("link", LinkPath(p, 1)) : trace[v].res = NoneLit
           /\ \E v \in EventsAt("link", LinkPath(p, 2)) : trace[v].res = Bool(FALSE)
           /\ EventsAt("block", LinkPath(p, 1) \o <<2>>) = {}
           /\ EventsAt("block", LinkPath(p, 2) \o <<2>>) = {}
           /\ EventsAt("block", LinkPath(p, 3) \o <<2>>) # {}
           /\ Len(out) = 3

\* C6 second case reached: every condition falsy, no ELSE link, result UnMetIf
C6_WitnessUnmet ==
    \E t \in Events("top") :
        /\ trace[t].res = UnMetIf
        /\ Cardinality(Events("link")) = 3
        /\ Events("block") = {}

\* ------------------------------------------------------------------------
\* Parser (src/src/parser.rs)
\* ------------------------------------------------------------------------
Token(tt, lit) == [token_type |-> tt, literal |-> lit]

\* the cursor fields next_token reads and writes
Cursor == [current_pos |-> current_pos, cur_token |-> cur_token,
           peek_token |-> peek_token, line_count |-> line_count]

\* next_token.  current_pos is a usize that the skip loops can increment without
\* end; once it is past the last index nothing the code does depends on its
\* value, so from there on the model keeps only that it changes at every call
\* (it alternates between the two values past the last index).
next_token(c) ==
    LET pos == IF c.current_pos <= Len(token_stream) THEN c.current_pos + 1
               ELSE Len(token_stream)
        cur == c.peek_token
    IN [current_pos |-> pos,
        cur_token |-> cur,
        line_count |-> IF cur.token_type = "EOL" THEN c.line_count + 1 ELSE c.line_count,
        peek_token |-> IF pos + 1 < Len(token_stream) THEN token_stream[pos + 2]
                       ELSE c.peek_token]

SetCursor(c) ==
    /\ current_pos' = c.current_pos
    /\ cur_token' = c.cur_token
    /\ peek_token' = c.peek_token
    /\ line_count' = c.line_count

cur_token_is(c, tt) == c.cur_token.token_type = tt
peek_token_is(c, tt) == c.peek_token.token_type = tt

\* the diagnostic of peek_error; `at` (not in the message) is the position of the
\* token the failing statement started at
peek_error(c, tt, at) ==
    [expected |-> tt, found |-> c.peek_token.token_type, line |-> c.line_count, at |-> at]

\* the statements the parser builds; `at` (not in the AST) is the position of
\* the statement's first token
ParsedVar(n, at) == [kind |-> "VAR", name |-> n, expression |-> <<>>, at |-> at]
ParsedReturn(at) == [kind |-> "RETURN", name |-> "", expression |-> <<>>, at |-> at]
ParsedExpression(e, at) == [kind |-> "EXPRESSION", name |-> "", expression |-> e, at |-> at]

\* prefix_parse: Some(identifier) for IDENT, None for every other token
prefix_parse(c) ==
    IF c.cur_token.token_type = "IDENT" THEN <<c.cur_token.literal>> ELSE <<>>

\* parse_program: the while loop ends at EOF and the Program is returned
ParseProgramReturn ==
    /\ p_pc = "loop"
    /\ cur_token.token_type = "EOF"
    /\ p_pc' = "returned"
    /\ UNCHANGED <<token_stream, cur_token, peek_token, current_pos, line_count, errors,
                   statements, pending, evars>>

\* parse_statement on VAR: parse_var_statement up to its skip loop.  When an
\* expect_peek fails the statement is None and parse_program calls next_token.
ParseVarStatement ==
    /\ p_pc = "loop"
    /\ cur_token.token_type = "VAR"
    /\ LET c0 == Cursor
           c1 == next_token(c0)
           c2 == next_token(c1)
       IN IF ~peek_token_is(c0, "IDENT")
          THEN /\ errors' = Append(errors, peek_error(c0, "IDENT", current_pos))
               /\ SetCursor(next_token(c0))
               /\ UNCHANGED <<pending, p_pc>>
          ELSE IF ~peek_token_is(c1, "ASSIGN")
          THEN /\ errors' = Append(errors, peek_error(c1, "ASSIGN", current_pos))
               /\ SetCursor(next_token(c1))
               /\ UNCHANGED <<pending, p_pc>>
          ELSE /\ SetCursor(c2)
               /\ pending' = <<ParsedVar(c1.cur_token.literal, current_pos)>>
               /\ p_pc' = "skip"
               /\ UNCHANGED errors
    /\ UNCHANGED <<token_stream, statements, evars>>

\* parse_statement on RETURN: parse_return_statement up to its skip loop
ParseReturnStatement ==
    /\ p_pc = "loop"
    /\ cur_token.token_type = "RETURN"
    /\ pending' = <<ParsedReturn(current_pos)>>
    /\ p_pc' = "skip"
    /\ UNCHANGED <<token_stream, cur_token, peek_token, current_pos, line_count, errors,
                   statements, evars>>

\* one iteration of `while !self.cur_token_is(TokenType::EOL) { self.next_token(); }`
SkipToken ==
    /\ p_pc = "skip"
    /\ ~cur_token_is(Cursor, "EOL")
    /\ SetCursor(next_token(Cursor))
    /\ UNCHANGED <<token_stream, errors, statements, pending, p_pc, evars>>

\* the skip loop ends: the statement is returned and pushed, and parse_program
\* calls next_token
SkipEnd ==
    /\ p_pc = "skip"
    /\ cur_token_is(Cursor, "EOL")
    /\ statements' = statements \o pending
    /\ pending' = <<>>
    /\ SetCursor(next_token(Cursor))
    /\ p_pc' = "loop"
    /\ UNCHANGED <<token_stream, errors, evars>>

\* parse_statement on ILLEGAL: throw_error pushes the message, prints the errors
\* and exits the process
ParseIllegal ==
    /\ p_pc = "loop"
    /\ cur_token.token_type = "ILLEGAL"
    /\ errors' = Append(errors, [expected |-> "", found |-> "ILLEGAL",
                                 line |-> line_count, at |-> current_pos])
    /\ p_pc' = "exit"
    /\ UNCHANGED <<token_stream, cur_token, peek_token, current_pos, line_count,
                   statements, pending, evars>>

\* parse_statement on EOL: next_token, None; then parse_program's next_token
ParseEol ==
    /\ p_pc = "loop"
    /\ cur_token.token_type = "EOL"
    /\ SetCursor(next_token(next_token(Cursor)))
    /\ UNCHANGED <<token_stream, errors, statements, pending, p_pc, evars>>

\* parse_statement on any other token: parse_expression_statement (prefix_parse,
\* next_token), the statement is pushed; then parse_program's next_token
ParseExpressionStatement ==
    /\ p_pc = "loop"
    /\ cur_token.token_type \notin {"VAR", "RETURN", "ILLEGAL", "EOL", "EOF"}
    /\ statements' = Append(statements, ParsedExpression(prefix_parse(Cursor), current_pos))
    /\ SetCursor(next_token(next_token(Cursor)))
    /\ UNCHANGED <<token_stream, errors, pending, p_pc, evars>>

\* ------------------------------------------------------------------------
\* Token streams the parser is run on: up to MaxTokens tokens, then EOF
\* ------------------------------------------------------------------------
Tokens ==
    { Token("VAR", "var"), Token("RETURN", "return"), Token("IDENT", "x"),
      Token("IDENT", "y"), Token("ASSIGN", "="), Token("EOL", ""), Token("ILLEGAL", "@") }

IsTokenStream(ts) ==
    \E n \in 1..MaxTokens : \E f \in [1..n -> Tokens] :
        ts = [i \in 1..(n + 1) |-> IF i <= n THEN f[i] ELSE Token("EOF", "")]

EvaluatorIdle ==
    /\ program = <<>>
    /\ idx = 1
    /\ result = Some(NoneLit)
    /\ out = <<>>
    /\ trace = <<>>
    /\ e_pc = "idle"

\* Parser::new(lexer), then parse_program
ParserInit ==
    /\ IsTokenStream(token_stream)
    /\ cur_token = token_stream[1]
    /\ peek_token = token_stream[2]
    /\ current_pos = 0
    /\ line_count = 1
    /\ errors = <<>>
    /\ statements = <<>>
    /\ pending = <<>>
    /\ p_pc = "loop"
    /\ EvaluatorIdle

ParserNext ==
    \/ ParseProgramReturn
    \/ ParseVarStatement
    \/ ParseReturnStatement
    \/ SkipToken
    \/ SkipEnd
    \/ ParseIllegal
    \/ ParseEol
    \/ ParseExpressionStatement

ParserSpec == ParserInit /\ [][ParserNext]_vars

\* the process is single-threaded and runs without waiting for anything: as
\* long as it has a next step it takes it
ParserFairSpec == ParserSpec /\ WF_vars(ParserNext)

\* ------------------------------------------------------------------------
\* Properties of the parser.  Positions are 0-based, as current_pos is.
\* ------------------------------------------------------------------------
TokenAt(q) == token_stream[q + 1]
Positions == 0..(Len(token_stream) - 1)
HasIllegal == \E q \in Positions : TokenAt(q).token_type = "ILLEGAL"
\* q is the first token of a line
LineStart(q) == q = 0 \/ TokenAt(q - 1).token_type = "EOL"
\* a line that starts with RETURN, and one that starts with VAR IDENT ASSIGN
ReturnLine(q) == LineStart(q) /\ TokenAt(q).token_type = "RETURN"
VarLine(q) ==
    /\ LineStart(q)
    /\ q + 2 < Len(token_stream)
    /\ TokenAt(q).token_type = "VAR"
    /\ TokenAt(q + 1).token_type = "IDENT"
    /\ TokenAt(q + 2).token_type = "ASSIGN"
\* every line ends with EOL: the token in front of the closing EOF is an EOL
EolTerminated == TokenAt(Len(token_stream) - 2).token_type = "EOL"
StatementsAt(q) == {i \in DOMAIN statements : statements[i].at = q}

\* C7: parse_program never returns a Program for a token stream that holds an
\* ILLEGAL token.
C7_IllegalNeverReturns == p_pc = "returned" => ~HasIllegal

\* C8: in an ILLEGAL-free stream, a malformed VAR statement leaves no statement
\* for its slot and exactly one diagnostic, and the statements of the following
\* lines are parsed: when parse_program returns, every later line that starts
\* with RETURN or with VAR IDENT ASSIGN has its statement in the Program.
C8_MalformedVarRecovers ==
    (p_pc = "returned" /\ ~HasIllegal) =>
        \A e \in DOMAIN errors :
            /\ StatementsAt(errors[e].at) = {}
            /\ Cardinality({f \in DOMAIN errors : errors[f].at = errors[e].at}) = 1
            /\ \A q \in Positions :
                  (q > errors[e].at /\ (ReturnLine(q) \/ VarLine(q))) => StatementsAt(q) # {}

\* C9: on an ILLEGAL-free stream that ends in EOF, parse_program eventually
\* returns the Program.
C9_ParseTerminates == (~HasIllegal) ~> (p_pc = "returned")

\* C10: for an ILLEGAL-free stream of EOL-terminated lines, blank lines
\* included, the returned Program holds, in source order, exactly one Return
\* statement for each line that starts with RETURN and exactly one Var
\* statement, with the identifier's name, for each line that starts with
\* VAR IDENT ASSIGN.
C10_EveryLineYieldsItsStatement ==
    (p_pc = "returned" /\ ~HasIllegal /\ EolTerminated) =>
        /\ \A q \in Positions :
              /\ ReturnLine(q) =>
                    /\ Cardinality(StatementsAt(q)) = 1
                    /\ \A i \in StatementsAt(q) : statements[i].kind = "RETURN"
              /\ VarLine(q) =>
                    /\ Cardinality(StatementsAt(q)) = 1
                    /\ \A i \in StatementsAt(q) :
                          /\ statements[i].kind = "VAR"
                          /\ statements[i].name = TokenAt(q + 1).literal
        /\ \A i, j \in DOMAIN statements : i < j => statements[i].at < statements[j].at
====
